---- MODULE Spec2Model ----
(***************************************************************************)
(* Model of src/qbo_sdp.py: qbo_sdp_01 builds the SDP relaxation of a      *)
(* quadratic binary optimisation problem and hands it to a solver.         *)
(*                                                                         *)
(* Arrays are modelled by what the code reads of them: whether they have   *)
(* a .shape attribute and the shape tuple.  Constraints are modelled as    *)
(* records naming the expression the code builds.  A caller calls          *)
(* qbo_sdp_01 up to MaxCalls times with the very same argument objects.    *)
(***************************************************************************)
EXTENDS Integers, Sequences, FiniteSets, TLC

\* ------------------------------------------------------------------ bounds
MaxN == 2       \* dimensions range over 1..MaxN
MaxM == 1       \* row counts / vector lengths range over 0..MaxM
MaxK == 2       \* at most MaxK quadratic triples
MaxCalls == 2   \* the caller calls qbo_sdp_01 at most MaxCalls times

\* ------------------------------------------------------------- array model
\* An object with a .shape attribute.
Arr(s) == [hasShape |-> TRUE, shape |-> s]
\* An object without a .shape attribute (a list, None, a scalar ...).
NoShapeObj == [hasShape |-> FALSE, shape |-> <<>>]

\* ---------------------------------------------------------------- exceptions
NoExc ==
    [type |-> "None", kind |-> "None", src |-> "None", token |-> "",
     allowed |-> <<>>, index |-> -1, n |-> -1, shape |-> <<>>, shape2 |-> <<>>]

Exc(type, kind, src) == [NoExc EXCEPT !.type = type, !.kind = kind, !.src = src]

\* raise ex() where ex is an exception instance: calling the instance fails,
\* so what propagates is TypeError("'...' object is not callable").
RaiseExCall(src) == Exc("TypeError", "NotCallable", src)

\* ------------------------------------------------------------ check_operator
allowed_operators == ("<=" :> "le") @@ (">=" :> "ge") @@ ("==" :> "eq")

\* list(allowed_operators.keys()): insertion order of the dict literal.
AllowedKeys == <<"<=", ">=", "==">>

check_operator_broken(operator_as_string) ==
    IF operator_as_string \in DOMAIN allowed_operators
    THEN [ok |-> TRUE,
          val |-> IF operator_as_string = ">=" THEN "le"
                  ELSE allowed_operators[operator_as_string],
          exc |-> NoExc]
    ELSE [ok |-> FALSE, val |-> "",
          exc |-> [Exc("ValueError", "InvalidOperator", "check_operator")
                   EXCEPT !.token = operator_as_string]]

check_operator(operator_as_string) ==
    IF operator_as_string \in DOMAIN allowed_operators
    THEN [ok |-> TRUE, val |-> allowed_operators[operator_as_string], exc |-> NoExc]
    ELSE [ok |-> FALSE, val |-> "",
          exc |-> [Exc("ValueError", "InvalidOperator", "check_operator")
                   EXCEPT !.token = operator_as_string, !.allowed = AllowedKeys]]

\* ---------------------------------------------------- check_linear_constraint
\* The dimension test of line 82: no error is raised when it is TRUE.
DimsAccepted(nn, m_A, n_A, m_b) == nn = n_A \/ m_A = m_b

NoLin == [A |-> NoShapeObj, b |-> NoShapeObj, op |-> ""]

check_linear_constraint(lc, nn) ==
    LET o == check_operator(lc.op)
        src == "check_linear_constraint"
    IN  IF ~o.ok THEN [ok |-> FALSE, val |-> NoLin, exc |-> o.exc]
        ELSE IF ~lc.A.hasShape
            THEN [ok |-> FALSE, val |-> NoLin, exc |-> RaiseExCall(src)]
        ELSE IF Len(lc.A.shape) # 2
            THEN [ok |-> FALSE, val |-> NoLin,
                  exc |-> [Exc("ValueError", "A_not_2D", src)
                           EXCEPT !.n = nn, !.shape = lc.A.shape]]
        ELSE IF ~lc.b.hasShape
            THEN [ok |-> FALSE, val |-> NoLin, exc |-> RaiseExCall(src)]
        ELSE IF Len(lc.b.shape) # 1
            THEN [ok |-> FALSE, val |-> NoLin,
                  exc |-> [Exc("ValueError", "b_not_1D", src)
                           EXCEPT !.shape2 = lc.b.shape]]
        ELSE IF ~DimsAccepted(nn, lc.A.shape[1], lc.A.shape[2], lc.b.shape[1])
            THEN [ok |-> FALSE, val |-> NoLin,
                  exc |-> [Exc("ValueError", "Incompatible", src)
                           EXCEPT !.n = nn, !.shape = lc.A.shape,
                                  !.shape2 = lc.b.shape]]
        ELSE [ok |-> TRUE, val |-> [A |-> lc.A, b |-> lc.b, op |-> o.val],
              exc |-> NoExc]

\* ------------------------------------------------------------- constraints
Con(kind, i, op, Qi, r) == [kind |-> kind, i |-> i, op |-> op, Q |-> Qi, r |-> r]

\* Lines 124-129: Y >> 0, Y[0,0] == 1, Y[0,1:] == x, x >= 0, x <= 1.
BaseConstraints ==
    << Con("Y_psd", -1, "psd", <<>>, 0),
       Con("Y00", -1, "eq", <<>>, 1),
       Con("Y0x", -1, "eq", <<>>, 0),
       Con("x", -1, "ge", <<>>, 0),
       Con("x", -1, "le", <<>>, 1) >>

\* _operator(A[i, :] @ x, b[i]): row i of A against entry i of b.
LinCon_eq(i, op) == Con("lin", i, "eq", <<>>, 0)

LinCon(i, op) == Con("lin", i, op, <<>>, 0)

\* _operator(cvx.trace(Qi @ X), ri)
QuadCon(Qi, ri, op) == Con("quad", -1, op, Qi.shape, ri)

\* Lines 135-139: the comprehension over range(A_m).  A[i, :] @ x is
\* evaluated before b[i]; the modelling library rejects a product of
\* vectors of different lengths, and b[i] past the end of b is an IndexError.
\* The list is built in full before constraints is extended.
LinearRows(v, nn) ==
    LET A_m == v.A.shape[1]
        n_A == v.A.shape[2]
        m_b == v.b.shape[1]
    IN  IF A_m = 0 THEN [ok |-> TRUE, rows |-> <<>>, exc |-> NoExc]
        ELSE IF n_A # nn
            THEN [ok |-> FALSE, rows |-> <<>>,
                  exc |-> [Exc("ValueError", "matmul_dims", "cvxpy")
                           EXCEPT !.index = 0, !.n = nn, !.shape = v.A.shape]]
        ELSE IF m_b < A_m
            THEN [ok |-> FALSE, rows |-> <<>>,
                  exc |-> [Exc("IndexError", "b_index", "numpy")
                           EXCEPT !.index = m_b, !.shape2 = v.b.shape]]
        ELSE [ok |-> TRUE, rows |-> [i \in 1..A_m |-> LinCon(i - 1, v.op)],
              exc |-> NoExc]

\* ------------------------------------------------ check_quadratic_constraints
\* One pass of the loop body (lines 103-114) for the i-th triple drawn in
\* this call: the token is resolved first, then the shape is unpacked.
QShapeOk_loose(s, nn) == s[1] = s[2]

QShapeOk(s, nn) == s[1] = s[2] /\ nn = s[1]

Yield_changed(Qi, ri, op) == [Q |-> Qi, r |-> ri + 1, op |-> op]

Yield(Qi, ri, op) == [Q |-> Qi, r |-> ri, op |-> op]

NoYield == [Q |-> NoShapeObj, r |-> 0, op |-> ""]

check_quadratic_step(i, t, nn) ==
    LET o == check_operator(t.op)
        src == "check_quadratic_constraints"
        bad == [Exc("ValueError", "Q_bad_shape", src)
                EXCEPT !.index = i, !.n = nn, !.shape = t.Q.shape]
    IN  IF ~o.ok THEN [ok |-> FALSE, val |-> NoYield, exc |-> o.exc]
        ELSE IF ~t.Q.hasShape
            THEN [ok |-> FALSE, val |-> NoYield, exc |-> RaiseExCall(src)]
        ELSE IF Len(t.Q.shape) # 2
            THEN [ok |-> FALSE, val |-> NoYield, exc |-> bad]
        ELSE IF ~QShapeOk(t.Q.shape, nn)
            THEN [ok |-> FALSE, val |-> NoYield, exc |-> bad]
        ELSE [ok |-> TRUE, val |-> Yield(t.Q, t.r, o.val), exc |-> NoExc]

\* ------------------------------------------------------------------- solver
\* The external solver is deterministic: the value and status it reports
\* are a function of the problem it is given, here the problem itself.
problem_solve(cs) == [objective |-> "Minimize(trace(Q @ X))", constraints |-> cs]

NoProblem == [objective |-> "", constraints |-> <<>>]

\* time.time(): the number of events of the call that lie in the past.
time(l) == Len(l)

\* -------------------------------------------------------------------- state
VARIABLES
    Q,                      \* argument Q
    linear_constraint,      \* argument: [isNone, A, b, op]
    quadratic_constraints,  \* argument: [kind, items], kind none | list | gen
    gen_pos,                \* items a generator argument has already produced
    pc,                     \* position in qbo_sdp_01
    calls,                  \* calls started so far
    n,                      \* local n
    constraints,            \* local constraints
    checked,                \* (A, b, _operator) returned by check_linear_constraint
    it,                     \* triples drawn from the collection in this call
    yielded,                \* triples yielded by check_quadratic_constraints
    pending,                \* the list the comprehension of line 143 is building
    exc,                    \* the exception that ended the call
    log,                    \* events of the call, in order
    start_time,             \* local start_time
    end_time,               \* the time.time() of line 149
    solve_count,            \* problem.solve invocations in this call
    problem,                \* what problem.solve was given
    result,                 \* returned: the tuple of lines 152-156
    history                 \* one record per finished call

args == <<Q, linear_constraint, quadratic_constraints>>
locals == <<n, constraints, checked, it, yielded, pending, exc, log,
            start_time, end_time, solve_count, problem, result>>
vars == <<args, gen_pos, pc, calls, locals, history>>

\* ------------------------------------------------------------------- inputs
Tokens == {"<=", ">=", "==", "!="}
RVals == {7, 8}

LinNone == [isNone |-> TRUE, A |-> NoShapeObj, b |-> NoShapeObj, op |-> ""]
QuadNone == [kind |-> "none", items |-> <<>>]

SeqsUpTo(S, k) == UNION {[1..j -> S] : j \in 0..k}
Collections(S, k) == [kind : {"list", "gen"}, items : SeqsUpTo(S, k)]

\* A dimension other than nn.
Other(nn) == (nn % MaxN) + 1

\* Any linear constraint: A and b with or without a shape, of any rank.
LinShapesA ==
    {NoShapeObj, Arr(<<1>>)} \cup {Arr(<<m, k>>) : m \in 0..MaxM, k \in 1..MaxN}
LinShapesB ==
    {NoShapeObj, Arr(<<1, 1>>)} \cup {Arr(<<m>>) : m \in 0..MaxM}
AnyLinear == [isNone : {FALSE}, A : LinShapesA, b : LinShapesB, op : Tokens]

\* Well-formed linear constraints for dimension nn.
GoodLinear(nn) ==
    {[isNone |-> FALSE, A |-> Arr(<<m, nn>>), b |-> Arr(<<m>>), op |-> o] :
        m \in 0..MaxM, o \in DOMAIN allowed_operators}

\* Any triple: a well-formed Qi with any token, or any Qi with the token <=,
\* or a Qi without a shape together with a token that is not allowed.
QuadShapes(nn) ==
    {NoShapeObj, Arr(<<nn>>), Arr(<<nn, nn>>), Arr(<<nn, Other(nn)>>),
     Arr(<<Other(nn), nn>>), Arr(<<Other(nn), Other(nn)>>)}
AnyTriples(nn) ==
    [Q : {Arr(<<nn, nn>>)}, r : {7}, op : Tokens]
    \cup [Q : QuadShapes(nn), r : {7}, op : {"<="}]
    \cup {[Q |-> NoShapeObj, r |-> 7, op |-> "!="]}

\* Well-formed triples for dimension nn.
GoodTriples(nn) == [Q : {Arr(<<nn, nn>>)}, r : RVals, op : DOMAIN allowed_operators]

\* The caller's arguments for a Q of dimension nn: an arbitrary linear
\* constraint with a short well-formed quadratic collection, or an arbitrary
\* quadratic collection with no or one well-formed linear constraint, or
\* well-formed constraints of both kinds.
InputsFor(nn) ==
    (AnyLinear \X
        ({QuadNone} \cup Collections({[Q |-> Arr(<<nn, nn>>), r |-> 7, op |-> "<="]}, 1)))
    \cup
    ({LinNone, [isNone |-> FALSE, A |-> Arr(<<MaxM, nn>>), b |-> Arr(<<MaxM>>),
                op |-> ">="]} \X
        ({QuadNone} \cup Collections(AnyTriples(nn), MaxK)))
    \cup
    (GoodLinear(nn) \X ({QuadNone} \cup Collections(GoodTriples(nn), MaxK)))

NoChecked == NoLin

Init ==
    /\ \E k \in 1..MaxN : \E inp \in InputsFor(k) :
          /\ Q = Arr(<<k, k>>)
          /\ linear_constraint = inp[1]
          /\ quadratic_constraints = inp[2]
    /\ gen_pos = 0
    /\ pc = "idle"
    /\ calls = 0
    /\ n = 0
    /\ constraints = <<>>
    /\ checked = NoChecked
    /\ it = 0
    /\ yielded = <<>>
    /\ pending = <<>>
    /\ exc = NoExc
    /\ log = <<>>
    /\ start_time = 0
    /\ end_time = 0
    /\ solve_count = 0
    /\ problem = NoProblem
    /\ result = NoProblem
    /\ history = <<>>

\* What a finished call leaves in the caller's hands.
Outcome(how, p, e, l, ys) ==
    [outcome |-> how, problem |-> p, exc |-> e, log |-> l, yielded |-> ys]

Raise_swallowed(e) ==
    /\ pc' = "l147"
    /\ exc' = e
    /\ history' = history

\* An exception e leaves qbo_sdp_01 (nothing in the function catches it).
Raise(e) ==
    /\ pc' = "raised"
    /\ exc' = e
    /\ history' = Append(history, Outcome("raised", problem, e, log, yielded))

\* --------------------------------------------------------------- operations
Call_stale ==
    /\ pc \in {"idle", "returned", "raised"}
    /\ calls < MaxCalls
    /\ calls' = calls + 1
    /\ pc' = "l117"
    /\ n' = 0
    /\ constraints' = <<>>
    /\ checked' = NoChecked
    /\ it' = 0
    /\ yielded' = <<>>
    /\ exc' = NoExc
    /\ log' = <<>>
    /\ start_time' = 0
    /\ end_time' = 0
    /\ solve_count' = 0
    /\ problem' = NoProblem
    /\ result' = NoProblem
    /\ UNCHANGED <<args, gen_pos, history, pending>>

\* The caller invokes qbo_sdp_01 with the same argument objects (line 180).
Call ==
    /\ pc \in {"idle", "returned", "raised"}
    /\ calls < MaxCalls
    /\ calls' = calls + 1
    /\ pc' = "l117"
    /\ n' = 0
    /\ constraints' = <<>>
    /\ checked' = NoChecked
    /\ it' = 0
    /\ yielded' = <<>>
    /\ pending' = <<>>
    /\ exc' = NoExc
    /\ log' = <<>>
    /\ start_time' = 0
    /\ end_time' = 0
    /\ solve_count' = 0
    /\ problem' = NoProblem
    /\ result' = NoProblem
    /\ UNCHANGED <<args, gen_pos, history>>

\* Line 117: start_time = time.time()
StartTimer ==
    /\ pc = "l117"
    /\ start_time' = time(log)
    /\ pc' = "l119"
    /\ UNCHANGED <<args, gen_pos, calls, n, constraints, checked, it, yielded,
                   pending, exc, log, end_time, solve_count, problem, result,
                   history>>

\* Lines 119-131: n, the lifted variable, the base constraints, the objective.
Build ==
    /\ pc = "l119"
    /\ n' = Q.shape[1]
    /\ constraints' = BaseConstraints
    /\ log' = log \o <<"variables", "base_constraints", "objective">>
    /\ pc' = "l133"
    /\ UNCHANGED <<args, gen_pos, calls, checked, it, yielded, pending, exc,
                   start_time, end_time, solve_count, problem, result, history>>

\* Lines 133-134: validation of the linear constraint, when there is one.
CheckLinear ==
    /\ pc = "l133"
    /\ IF linear_constraint.isNone
       THEN /\ pc' = "l142"
            /\ UNCHANGED <<checked, log, exc, history>>
       ELSE LET res == check_linear_constraint(linear_constraint, n)
            IN  /\ log' = Append(log, "check_linear_constraint")
                /\ IF res.ok
                   THEN /\ checked' = res.val
                        /\ pc' = "l135"
                        /\ UNCHANGED <<exc, history>>
                   ELSE /\ Raise(res.exc)
                        /\ UNCHANGED checked
    /\ UNCHANGED <<args, gen_pos, calls, n, constraints, it, yielded, pending,
                   start_time, end_time, solve_count, problem, result>>

\* Lines 135-139: one constraint per row of A.
AppendLinear ==
    /\ pc = "l135"
    /\ LET res == LinearRows(checked, n)
       IN  /\ log' = Append(log, "linear_rows")
           /\ IF res.ok
              THEN /\ constraints' = constraints \o res.rows
                   /\ pc' = "l142"
                   /\ UNCHANGED <<exc, history>>
              ELSE /\ Raise(res.exc)
                   /\ UNCHANGED constraints
    /\ UNCHANGED <<args, gen_pos, calls, n, checked, it, yielded, pending,
                   start_time, end_time, solve_count, problem, result>>

\* Line 142: if quadratic_constraints is not None
QuadTest ==
    /\ pc = "l142"
    /\ pc' = IF quadratic_constraints.kind = "none" THEN "l147" ELSE "l144"
    /\ UNCHANGED <<args, gen_pos, calls, locals, history>>

\* The position in the collection of the next triple this call draws: a
\* list is iterated from its start, a generator from where it was left.
NextPos == IF quadratic_constraints.kind = "gen" THEN gen_pos ELSE it

\* Lines 102-114 and 144: the comprehension draws one triple through the
\* generator check_quadratic_constraints and builds its constraint.
QuadNext ==
    /\ pc = "l144"
    /\ NextPos < Len(quadratic_constraints.items)
    /\ LET t == quadratic_constraints.items[NextPos + 1]
           res == check_quadratic_step(it, t, n)
       IN  /\ it' = it + 1
           /\ gen_pos' = IF quadratic_constraints.kind = "gen"
                         THEN gen_pos + 1 ELSE gen_pos
           /\ log' = Append(log, "check_quadratic_constraints")
           /\ IF res.ok
              THEN /\ yielded' = Append(yielded, res.val)
                   /\ pending' = Append(pending,
                                        QuadCon(res.val.Q, res.val.r, res.val.op))
                   /\ UNCHANGED <<pc, exc, history>>
              ELSE /\ Raise(res.exc)
                   /\ UNCHANGED <<yielded, pending>>
    /\ UNCHANGED <<args, calls, n, constraints, checked, start_time, end_time,
                   solve_count, problem, result>>

\* Lines 143-145: the collection is exhausted; constraints += [...]
QuadEnd ==
    /\ pc = "l144"
    /\ NextPos >= Len(quadratic_constraints.items)
    /\ constraints' = constraints \o pending
    /\ pc' = "l147"
    /\ UNCHANGED <<args, gen_pos, calls, n, checked, it, yielded, pending, exc,
                   log, start_time, end_time, solve_count, problem, result,
                   history>>

Solve_early ==
    /\ pc = "l147"
    /\ end_time' = time(log)
    /\ problem' = problem_solve(constraints)
    /\ solve_count' = solve_count + 1
    /\ log' = Append(log, "solve")
    /\ pc' = "l152"
    /\ UNCHANGED <<args, gen_pos, calls, n, constraints, checked, it, yielded,
                   pending, exc, start_time, result, history>>

\* Lines 147-149: the problem is built and solved, then the clock is read.
Solve ==
    /\ pc = "l147"
    /\ problem' = problem_solve(constraints)
    /\ solve_count' = solve_count + 1
    /\ log' = Append(log, "solve")
    /\ end_time' = time(log')
    /\ pc' = "l152"
    /\ UNCHANGED <<args, gen_pos, calls, n, constraints, checked, it, yielded,
                   pending, exc, start_time, result, history>>

\* Lines 152-156: the result tuple.
Return ==
    /\ pc = "l152"
    /\ result' = problem
    /\ pc' = "returned"
    /\ history' = Append(history, Outcome("returned", problem, NoExc, log, yielded))
    /\ UNCHANGED <<args, gen_pos, calls, n, constraints, checked, it, yielded,
                   pending, exc, log, start_time, end_time, solve_count, problem>>

Next ==
    \/ Call
    \/ StartTimer
    \/ Build
    \/ CheckLinear
    \/ AppendLinear
    \/ QuadTest
    \/ QuadNext
    \/ QuadEnd
    \/ Solve
    \/ Return

Spec == Init /\ [][Next]_vars

\* =================================================================== claims
\* Vocabulary of the claims.
ValidTokens == {"<=", ">=", "=="}
ExpectedOp(tok) ==
    CASE tok = "<=" -> "le" [] tok = ">=" -> "ge" [] tok = "==" -> "eq"
      [] OTHER -> "invalid"

\* The triples this call has drawn from the collection so far, in order.
DrawBase == IF quadratic_constraints.kind = "gen" THEN gen_pos - it ELSE 0
Drawn == SubSeq(quadratic_constraints.items, DrawBase + 1, DrawBase + it)

InCall == calls > 0 /\ pc \notin {"idle"}
PastLinearCheck == InCall /\ pc \notin {"l117", "l119", "l133"}
Dim == Q.shape[1]

ShapeGood(t) == t.Q.hasShape /\ t.Q.shape = <<Dim, Dim>>
ExpectedYield(t) == [Q |-> t.Q, r |-> t.r, op |-> ExpectedOp(t.op)]

\* C9: check_operator maps <= to le, >= to ge and == to eq, and every other
\* token ends the call with the invalid-operator ValueError naming the token
\* and listing exactly the three allowed tokens; for the linear constraint's
\* token and for the token of every quadratic triple that is drawn.
C9_OperatorValidation ==
    /\ (PastLinearCheck /\ ~linear_constraint.isNone) =>
          IF linear_constraint.op \in ValidTokens
          THEN /\ exc.kind # "InvalidOperator" \/ it > 0
               /\ checked # NoChecked => checked.op = ExpectedOp(linear_constraint.op)
          ELSE /\ pc = "raised"
               /\ exc.type = "ValueError" /\ exc.kind = "InvalidOperator"
               /\ exc.token = linear_constraint.op
               /\ exc.allowed = <<"<=", ">=", "==">>
               /\ checked = NoChecked
    /\ \A j \in 1..it :
          IF Drawn[j].op \in ValidTokens
          THEN /\ j <= Len(yielded) => yielded[j].op = ExpectedOp(Drawn[j].op)
               /\ j = it => exc.kind # "InvalidOperator"
          ELSE /\ j = it /\ pc = "raised" /\ Len(yielded) = it - 1
               /\ exc.type = "ValueError" /\ exc.kind = "InvalidOperator"
               /\ exc.token = Drawn[j].op
               /\ exc.allowed = <<"<=", ">=", "==">>

C9_Witness ==
    /\ pc = "raised" /\ exc.kind = "InvalidOperator" /\ exc.token = "!="
    /\ Len(yielded) = 1 /\ yielded[1].op = "ge"
    /\ checked.op = "ge"

\* C7: when every triple the call draws has a square Qi of dimension n and a
\* valid token, check_quadratic_constraints yields exactly one triple per
\* input triple, in input order, with Qj and rj unchanged and the operator
\* resolved from the j-th token, and then ends without an exception.
C7_QuadraticOrderPreserving ==
    (\A j \in 1..it : ShapeGood(Drawn[j]) /\ Drawn[j].op \in ValidTokens) =>
        /\ pc = "raised" => it = 0
        /\ Len(yielded) = it
        /\ \A j \in 1..it : yielded[j] = ExpectedYield(Drawn[j])
        /\ (pc \in {"l147", "l152", "returned"} /\ quadratic_constraints.kind # "none")
              => DrawBase + it = Len(quadratic_constraints.items)

C7_Witness ==
    /\ pc = "l147" /\ Len(yielded) = 2 /\ it = 2
    /\ yielded[1].r # yielded[2].r /\ yielded[1].op # yielded[2].op

\* The first drawn triple whose Qi has a bad shape (0 when there is none).
FirstBadShape ==
    IF \E j \in 1..it : ~ShapeGood(Drawn[j])
    THEN CHOOSE j \in 1..it :
            ~ShapeGood(Drawn[j]) /\ \A h \in 1..(j - 1) : ShapeGood(Drawn[h])
    ELSE 0

\* C8: when all tokens are valid and every Qi has a shape, the first triple
\* (index i, counted from 0 in input order) whose Qi is not 2-D, not square
\* or of dimension other than n ends the call with the dimension ValueError
\* naming i; the triples before i have been yielded, none at or after i.
C8_QuadraticBadShapeByIndex ==
    ((\A j \in 1..it : Drawn[j].op \in ValidTokens /\ Drawn[j].Q.hasShape)
       /\ FirstBadShape > 0) =>
        /\ it = FirstBadShape
        /\ pc = "raised"
        /\ exc.type = "ValueError" /\ exc.kind = "Q_bad_shape"
        /\ exc.index = FirstBadShape - 1
        /\ exc.n = Dim
        /\ exc.shape = Drawn[FirstBadShape].Q.shape
        /\ Len(yielded) = FirstBadShape - 1
        /\ \A j \in 1..(FirstBadShape - 1) : yielded[j] = ExpectedYield(Drawn[j])

C8_Witness ==
    /\ pc = "raised" /\ exc.kind = "Q_bad_shape" /\ exc.index = 1
    /\ exc.shape = <<Other(Dim), Other(Dim)>>
    /\ Len(yielded) = 1

\* C3: a call that a validation failure ends never invokes problem.solve
\* and returns no result tuple, also when a quadratic triple fails after
\* earlier triples were validated.
C3_FailFastBeforeSolve ==
    /\ exc.type # "None" =>
          /\ pc = "raised"
          /\ solve_count = 0 /\ problem = NoProblem /\ result = NoProblem
    /\ \A c \in 1..Len(history) :
          history[c].outcome = "raised" =>
              /\ history[c].problem = NoProblem
              /\ \A e \in 1..Len(history[c].log) : history[c].log[e] # "solve"

C3_Witness ==
    /\ pc = "raised" /\ exc.src = "check_quadratic_constraints"
    /\ exc.index = 1 /\ Len(yielded) = 1
    /\ solve_count = 0

\* The linear constraint has a 2-D A, a 1-D b and a valid token.
LinearWellRanked ==
    /\ ~linear_constraint.isNone
    /\ linear_constraint.op \in ValidTokens
    /\ linear_constraint.A.hasShape /\ Len(linear_constraint.A.shape) = 2
    /\ linear_constraint.b.hasShape /\ Len(linear_constraint.b.shape) = 1

\* C1: for a 2-D A of shape (m, k) with k # n, any 1-D b (also one of length
\* m) and a valid token, linear validation ends the call with the
\* 'Incompatible dimensions' ValueError reporting n and k, and no constraint
\* has been appended to the base constraints.
C1_WrongColumnsRejected ==
    (PastLinearCheck /\ LinearWellRanked /\ linear_constraint.A.shape[2] # Dim) =>
        /\ pc = "raised"
        /\ exc.type = "ValueError" /\ exc.kind = "Incompatible"
        /\ exc.n = Dim /\ exc.shape = linear_constraint.A.shape
        /\ constraints = BaseConstraints

\* C2: for A of shape (m, n) and b of length m_b # m, linear validation ends
\* the call with the dimension error; whenever check_linear_constraint
\* returns, A's row count is b's length and A's column count is n, so the
\* builder neither indexes b out of range nor ignores trailing entries of b.
C2_RowCountMatchesB ==
    /\ (PastLinearCheck /\ LinearWellRanked
          /\ linear_constraint.A.shape[2] = Dim
          /\ linear_constraint.A.shape[1] # linear_constraint.b.shape[1]) =>
              pc = "raised" /\ exc.kind = "Incompatible"
    /\ checked # NoChecked =>
          /\ checked.A.shape[1] = checked.b.shape[1]
          /\ checked.A.shape[2] = Dim
    /\ exc.type # "IndexError"

\* C4: when reading the shape of A, b or a Qi raises something other than
\* the unpacking error (the object has no shape attribute), the call ends
\* with that original exception, the AttributeError, re-raised unchanged.
C4_IntrospectionErrorReRaised ==
    /\ (PastLinearCheck /\ ~linear_constraint.isNone
          /\ linear_constraint.op \in ValidTokens
          /\ (~linear_constraint.A.hasShape
                \/ (Len(linear_constraint.A.shape) = 2
                      /\ ~linear_constraint.b.hasShape))) =>
              pc = "raised" /\ exc.type = "AttributeError"
    /\ (it > 0 /\ Drawn[it].op \in ValidTokens /\ ~Drawn[it].Q.hasShape) =>
              pc = "raised" /\ exc.type = "AttributeError"

\* The events between the two readings of the clock.
Measured == SubSeq(log, start_time + 1, end_time)
ConstructionEvents ==
    {"variables", "base_constraints", "objective", "check_linear_constraint",
     "linear_rows", "check_quadratic_constraints"}

\* C5: in every successful call the measured interval holds the solve call
\* only: no construction or validation event lies between the two readings
\* of the clock.
C5_RuntimeCoversSolveOnly ==
    pc = "returned" =>
        /\ Measured = <<"solve">>
        /\ \A e \in 1..Len(Measured) : Measured[e] \notin ConstructionEvents

\* C5 as amended: in every successful call the start timestamp is read
\* before variable allocation, constraint construction and validation, and
\* the end timestamp right after problem.solve, so the measured interval
\* holds every construction and validation event of the call and the solve.
C5_RuntimeCoversWholeCall ==
    pc = "returned" =>
        /\ start_time = 0 /\ end_time = Len(log)
        /\ Measured = log
        /\ Len(log) >= 4
        /\ SubSeq(log, 1, 3) = <<"variables", "base_constraints", "objective">>
        /\ log[Len(log)] = "solve"
        /\ \A e \in 1..(Len(log) - 1) : log[e] \in ConstructionEvents

C5_Witness ==
    /\ pc = "returned"
    /\ \E e \in 1..Len(Measured) : Measured[e] = "check_linear_constraint"
    /\ \E e \in 1..Len(Measured) : Measured[e] = "check_quadratic_constraints"
    /\ Measured[Len(Measured)] = "solve"

\* C6: two successive calls with the identical arguments that both return
\* submit the same constraint set and return the same value and status.
C6_RepeatedCallsAgree ==
    \A c \in 1..(Len(history) - 1) :
        (history[c].outcome = "returned" /\ history[c + 1].outcome = "returned")
            => history[c + 1].problem = history[c].problem

\* The constraints of cs that do not come from a quadratic triple.
RECURSIVE WithoutQuadratic(_)
WithoutQuadratic(cs) ==
    IF cs = <<>> THEN <<>>
    ELSE IF cs[1].kind = "quad" THEN WithoutQuadratic(Tail(cs))
    ELSE <<cs[1]>> \o WithoutQuadratic(Tail(cs))

\* C6 as amended: two successive returning calls with the identical
\* arguments submit the same constraint set and return the same value and
\* status when quadratic_constraints is None or a collection that can be
\* iterated again (a list); when it is a one-shot generator, as the CLI
\* passes, the first call exhausts it and the next call submits the same
\* constraints without the quadratic ones.
C6_RepeatedCallsAgreeUnlessGenerator ==
    \A c \in 1..(Len(history) - 1) :
        (history[c].outcome = "returned" /\ history[c + 1].outcome = "returned") =>
            IF quadratic_constraints.kind = "gen"
            THEN /\ history[c + 1].problem.constraints
                        = WithoutQuadratic(history[c].problem.constraints)
                 /\ history[c + 1].yielded = <<>>
            ELSE /\ history[c + 1].problem = history[c].problem
                 /\ history[c + 1].yielded = history[c].yielded

C6_Witness ==
    /\ Len(history) = 2
    /\ history[1].outcome = "returned" /\ history[2].outcome = "returned"
    /\ quadratic_constraints.kind = "list"
    /\ Len(history[2].yielded) = 2
    /\ ~linear_constraint.isNone

\* The linear constraint is absent, or has A of shape (m, n), b of length m
\* and a valid token.
LinearValidOrNone ==
    \/ linear_constraint.isNone
    \/ /\ LinearWellRanked
       /\ linear_constraint.A.shape[2] = Dim
       /\ linear_constraint.A.shape[1] = linear_constraint.b.shape[1]

LinearRowCount ==
    IF linear_constraint.isNone THEN 0 ELSE linear_constraint.A.shape[1]

====
